---- MODULE Spec2Model ----
(***************************************************************************)
(* A model of tfconfig.loadModule (src/tfconfig/load_hcl.go): the walk    *)
(* over the primary files of a module directory, the per-block-type       *)
(* extraction into the Module, and the accumulation of diagnostics.       *)
(*                                                                         *)
(* The HCL library (hclparse, hcl, hclsyntax, gohcl, cty) is outside the   *)
(* repository.  An attribute expression is modelled by its syntactic form *)
(* and the library calls made on it by what they return for that form;    *)
(* a file or a body is modelled by what its parse / content retrieval     *)
(* returns.  All of these are inputs, drawn from the small sets below.     *)
(***************************************************************************)
EXTENDS Integers, Sequences, FiniteSets, TLC

VARIABLES
    pc,            \* position in loadModule: "start", "files", "blocks", "done"
    primaryPaths,  \* dirFiles result: sequence of file names
    overridePaths, \* dirFiles result: sequence of file names
    fileIdx,       \* number of primaryPaths entries the outer loop has taken
    line,          \* number of blocks of the current file the inner loop has taken
    input,         \* the blocks processed so far, in processing order
    mod,           \* the Module under construction
    diags,         \* the hcl.Diagnostics accumulated so far
    produced,      \* every diagnostic any library call or check has produced so far,
                   \* with the stage that produced it (history of the run)
    other,         \* mod and diags of a second run of loadModule over the same input
    ret            \* the returned (Module, Diagnostics), once returned

vars == <<pc, primaryPaths, overridePaths, fileIdx, line, input, mod, diags,
          produced, other, ret>>

(***************************************************************************)
(* Bounds of the model.                                                    *)
(***************************************************************************)
MaxBlocks == 3      \* blocks of the one file, in the runs over one file
MaxRunBlocks == 2   \* blocks of all files together, in the runs over a whole directory
MaxFiles == 2       \* primary files in the directory

(***************************************************************************)
(* Generic helpers.                                                        *)
(***************************************************************************)
EmptyMap == [k \in {} |-> 0]

Put(m, k, v) == [x \in (DOMAIN m) \cup {k} |-> IF x = k THEN v ELSE m[x]]

Has(m, k) == k \in DOMAIN m

\* All enumerations of a finite set as a sequence.
Orders(S) ==
    {o \in [1..Cardinality(S) -> S] : \A i, j \in 1..Cardinality(S) : o[i] = o[j] => i = j}

(***************************************************************************)
(* Diagnostics.                                                            *)
(***************************************************************************)
DiagError == "DiagError"
DiagWarning == "DiagWarning"

NoSubject == [Filename |-> "", Line |-> 0, Attr |-> ""]

Subject(filename, ln, attr) == [Filename |-> filename, Line |-> ln, Attr |-> attr]

Diag(sev, summary, detail, subj) ==
    [Severity |-> sev, Summary |-> summary, Detail |-> detail, Subject |-> subj]

\* A diagnostic made by the library (parser, schema, decoder, evaluator).
LibError(summary, subj) == Diag(DiagError, summary, "", subj)

HasErrors(ds) == \E i \in DOMAIN ds : ds[i].Severity = DiagError

\* The state the handlers thread through: the module, the diagnostics and
\* the history of everything produced.
Tagged(ds, stage) == [i \in DOMAIN ds |-> [diag |-> ds[i], stage |-> stage]]

\* diags = append(diags, ds...)
AppendDiags(s, ds, stage) ==
    [s EXCEPT !.diags = @ \o ds, !.produced = @ \o Tagged(ds, stage)]

\* ds was returned by a call and is never appended to diags.
DropDiags(s, ds, stage) ==
    [s EXCEPT !.produced = @ \o Tagged(ds, stage)]

(***************************************************************************)
(* Attribute expressions, by syntactic form:                               *)
(*   StringExpr     a quoted literal                        "aws.east"     *)
(*   NumberExpr     a number literal                        42             *)
(*   NullExpr       the null literal                        null           *)
(*   TraversalExpr  a bare (dotted / indexed) reference     aws.east       *)
(*   ListExpr       a tuple constructor of such expressions ["a", var.x]   *)
(***************************************************************************)
StringExpr(text) == [form |-> "string", text |-> text]
NumberExpr(text) == [form |-> "number", text |-> text]
NullExpr == [form |-> "null"]
TraversalExpr(segs) == [form |-> "traversal", segs |-> segs]
ListExpr(elems) == [form |-> "list", elems |-> elems]

TraverseRoot(name) == [kind |-> "root", name |-> name]
TraverseAttr(name) == [kind |-> "attr", name |-> name]
TraverseIndex(key) == [kind |-> "index", name |-> key]

\* cty values: the type, whether the value is known, and its content.
CtyString(s) == [ty |-> "string", known |-> TRUE, v |-> s, elems |-> <<>>]
CtyNumber(n) == [ty |-> "number", known |-> TRUE, v |-> n, elems |-> <<>>]
CtyNull == [ty |-> "null", known |-> TRUE, v |-> "", elems |-> <<>>]
CtyDynamicVal == [ty |-> "dynamic", known |-> FALSE, v |-> "", elems |-> <<>>]
CtyTuple(elems) == [ty |-> "tuple", known |-> TRUE, v |-> "", elems |-> elems]

\* expr.Value(nil) of an expression that is no list: evaluation without an
\* evaluation context.  A reference cannot be resolved: the result is the
\* unknown value, with the evaluator's error.
ScalarValue(e, subj) ==
    CASE e.form = "string" -> [val |-> CtyString(e.text), diags |-> <<>>]
      [] e.form = "number" -> [val |-> CtyNumber(e.text), diags |-> <<>>]
      [] e.form = "null" -> [val |-> CtyNull, diags |-> <<>>]
      [] OTHER -> [val |-> CtyDynamicVal,
                   diags |-> <<LibError("Variables not allowed", subj)>>]

RECURSIVE ConcatAll(_)
ConcatAll(ss) == IF ss = <<>> THEN <<>> ELSE Head(ss) \o ConcatAll(Tail(ss))

\* expr.Value(nil)
Value(e, subj) ==
    IF e.form = "list"
    THEN [val |-> CtyTuple([i \in DOMAIN e.elems |-> ScalarValue(e.elems[i], subj).val]),
          diags |-> ConcatAll([i \in DOMAIN e.elems |-> ScalarValue(e.elems[i], subj).diags])]
    ELSE ScalarValue(e, subj)

\* cty.Value.IsWhollyKnown
IsWhollyKnown(val) == val.known /\ \A i \in DOMAIN val.elems : val.elems[i].known

\* gohcl.DecodeExpression(expr, nil, &str) for a string target: evaluates,
\* converts the value to cty.String (a number converts to its decimal
\* string; a tuple does not convert) and requires a known, non-null result.
\* On any error the target keeps its zero value "".
DecodeExpression(e, subj) ==
    LET ev == Value(e, subj) IN
    IF ev.val.ty \in {"string", "number"}
    THEN [str |-> ev.val.v, diags |-> ev.diags]
    ELSE [str |-> "", diags |-> ev.diags \o <<LibError("Unsuitable value type", subj)>>]

\* hcl.AbsTraversalForExpr
AbsTraversalForExpr(e, subj) ==
    IF e.form = "traversal"
    THEN [traversal |-> e.segs, diags |-> <<>>]
    ELSE [traversal |-> <<>>, diags |-> <<LibError("Invalid expression", subj)>>]

\* hcl.ExprAsKeyword: the root name of a traversal of a single step, else "".
ExprAsKeyword(e) ==
    IF e.form = "traversal" /\ Len(e.segs) = 1 THEN e.segs[1].name ELSE ""

(***************************************************************************)
(* Strings the code looks inside (a resource type, the text handed to the  *)
(* traversal parser) are sequences of one-character strings; Join gives   *)
(* the string they spell.                                                  *)
(***************************************************************************)
RECURSIVE Join(_)
Join(cs) == IF cs = <<>> THEN "" ELSE Head(cs) \o Join(Tail(cs))

Letters == {"a", "b", "c", "d", "e", "f", "g", "h", "i", "j", "k", "l", "m", "n", "o",
            "p", "q", "r", "s", "t", "u", "v", "w", "x", "y", "z", "_"}
Digits == {"0", "1", "2", "3", "4", "5", "6", "7", "8", "9"}

\* The length of the longest prefix of cs made of characters of S.
RECURSIVE SpanLen(_, _)
SpanLen(cs, S) ==
    IF cs = <<>> \/ Head(cs) \notin S THEN 0 ELSE 1 + SpanLen(Tail(cs), S)

Take(cs, n) == SubSeq(cs, 1, n)
Drop(cs, n) == SubSeq(cs, n + 1, Len(cs))

\* The steps after the root: ".name" is an attribute step, "[digits]" an
\* index step; anything else is a syntax error.
RECURSIVE ParseSteps(_)
ParseSteps(cs) ==
    IF cs = <<>> THEN [ok |-> TRUE, steps |-> <<>>]
    ELSE IF Head(cs) = "."
    THEN LET n == SpanLen(Tail(cs), Letters \cup Digits) IN
         IF n = 0 \/ cs[2] \in Digits THEN [ok |-> FALSE, steps |-> <<>>]
         ELSE LET rest == ParseSteps(Drop(Tail(cs), n)) IN
              [ok |-> rest.ok,
               steps |-> <<TraverseAttr(Join(Take(Tail(cs), n)))>> \o rest.steps]
    ELSE IF Head(cs) = "["
    THEN LET n == SpanLen(Tail(cs), Digits) IN
         IF n = 0 \/ Len(cs) < n + 2 \/ cs[n + 2] # "]" THEN [ok |-> FALSE, steps |-> <<>>]
         ELSE LET rest == ParseSteps(Drop(cs, n + 2)) IN
              [ok |-> rest.ok,
               steps |-> <<TraverseIndex(Join(Take(Tail(cs), n)))>> \o rest.steps]
    ELSE [ok |-> FALSE, steps |-> <<>>]

\* hclsyntax.ParseTraversalAbs([]byte(str), "", hcl.Pos{}): an identifier (the
\* root) and then steps.  With errors the traversal returned may be partial.
ParseTraversalAbs(cs, subj) ==
    LET n == IF cs # <<>> /\ Head(cs) \in Letters THEN SpanLen(cs, Letters \cup Digits) ELSE 0
    IN  IF n = 0
        THEN [traversal |-> <<>>, diags |-> <<LibError("Variable name required", subj)>>]
        ELSE LET root == <<TraverseRoot(Join(Take(cs, n)))>>
                 rest == ParseSteps(Drop(cs, n))
             IN  IF rest.ok
                 THEN [traversal |-> root \o rest.steps, diags |-> <<>>]
                 ELSE [traversal |-> root, diags |-> <<LibError("Invalid character", subj)>>]

(***************************************************************************)
(* The Module.                                                             *)
(***************************************************************************)
newModule ==
    [RequiredCore |-> <<>>,
     RequiredProviders |-> EmptyMap,
     Variables |-> EmptyMap,
     Outputs |-> EmptyMap,
     ManagedResources |-> EmptyMap,
     DataResources |-> EmptyMap]

ManagedResourceMode == "managed"
DataResourceMode == "data"

\* sourcePosHCL: the file and line of a range.
sourcePosHCL(rng) == [Filename |-> rng.Filename, Line |-> rng.Line]

NoPos == [Filename |-> "", Line |-> 0]

\* Resource.MapKey
MapKey(r) == r.Mode \o ":" \o Join(r.Type) \o "." \o r.Name

\* resourceTypeDefaultProviderName: the type up to its first "_", or all of it.
resourceTypeDefaultProviderName(typeName) ==
    Join(Take(typeName, SpanLen(typeName, (Letters \cup Digits) \ {"_"})))

ZeroProviderRef == [Name |-> "", Alias |-> ""]

\* The Go nil interface value: an absent Default.
Nil == [gotype |-> "nil", v |-> "", elems |-> <<>>]

\* ctyjson.Marshal(val, val.Type()): the JSON document of a wholly known value.
ScalarJSON(val) ==
    CASE val.ty = "string" -> [json |-> "string", v |-> val.v, elems |-> <<>>]
      [] val.ty = "number" -> [json |-> "number", v |-> val.v, elems |-> <<>>]
      [] OTHER -> [json |-> "null", v |-> "", elems |-> <<>>]

ctyjsonMarshal(val) ==
    IF val.ty = "tuple"
    THEN [json |-> "array", v |-> "", elems |-> [i \in DOMAIN val.elems |-> ScalarJSON(val.elems[i])]]
    ELSE ScalarJSON(val)

\* json.Unmarshal(valJSON, &def) into an interface{}: a JSON string is a Go
\* string, a number a float64, null the nil interface, an array a
\* []interface{}.
ScalarUnmarshal(j) ==
    CASE j.json = "string" -> [gotype |-> "string", v |-> j.v, elems |-> <<>>]
      [] j.json = "number" -> [gotype |-> "float64", v |-> j.v, elems |-> <<>>]
      [] OTHER -> Nil

jsonUnmarshal(j) ==
    IF j.json = "array"
    THEN [gotype |-> "[]interface{}", v |-> "",
          elems |-> [i \in DOMAIN j.elems |-> ScalarUnmarshal(j.elems[i])]]
    ELSE ScalarUnmarshal(j)

(***************************************************************************)
(* The handlers of loadModule's switch on block.Type.  Each takes the      *)
(* state s = [mod, diags, produced] and the block b and gives the state    *)
(* after the case has run.  A block is                                     *)
(*   [Type, Labels, Attrs, Blocks, ContentDiags, DefRange]                 *)
(* where Attrs maps the names of the attributes present to their           *)
(* expressions, Blocks are the nested blocks (each [Attrs, AttrDiags]) and *)
(* ContentDiags / AttrDiags are the summaries of the diagnostics that       *)
(* PartialContent / JustAttributes return for the body.                    *)
(***************************************************************************)
AttrSubject(b, attr) == Subject(b.DefRange.Filename, b.DefRange.Line, attr)

\* content, _, contentDiags := block.Body.PartialContent(schema)
\* diags = append(diags, contentDiags...)
BlockContent(s, b) ==
    AppendDiags(s, [i \in DOMAIN b.ContentDiags |-> LibError(b.ContentDiags[i], AttrSubject(b, ""))],
                "PartialContent")

\* Mutant of AppendVersion: a version already recorded is not recorded again.
AppendVersion_Deduplicated(m, name, version) ==
    IF Has(m.RequiredProviders, name) /\ \E i \in DOMAIN m.RequiredProviders[name] :
                                            m.RequiredProviders[name][i] = version
    THEN m
    ELSE [m EXCEPT !.RequiredProviders =
             Put(@, name, (IF Has(@, name) THEN @[name] ELSE <<>>) \o <<version>>)]

\* mod.RequiredProviders[name] = append(mod.RequiredProviders[name], version)
AppendVersion(m, name, version) ==
    [m EXCEPT !.RequiredProviders =
        Put(@, name, (IF Has(@, name) THEN @[name] ELSE <<>>) \o <<version>>)]

\* The required_version attribute of a terraform block.
RequiredVersion(s, b) ==
    IF Has(b.Attrs, "required_version")
    THEN LET d == DecodeExpression(b.Attrs["required_version"], AttrSubject(b, "required_version"))
             s1 == AppendDiags(s, d.diags, "DecodeExpression")
         IN  IF ~HasErrors(d.diags)
             THEN [s1 EXCEPT !.mod.RequiredCore = Append(@, d.str)]
             ELSE s1
    ELSE s

\* One iteration of "for name, attr := range attrs".
RequiredProviderAttr(s, b, attrs, name) ==
    LET d == DecodeExpression(attrs[name], AttrSubject(b, name))
        s1 == AppendDiags(s, d.diags, "DecodeExpression")
    IN  IF ~HasErrors(d.diags)
        THEN [s1 EXCEPT !.mod = AppendVersion(@, name, d.str)]
        ELSE s1

\* "for name, attr := range attrs": attrs is a Go map, ranged over in the
\* order the runtime picks, here the sequence order.
RECURSIVE RangeAttrs(_, _, _, _)
RangeAttrs(s, b, attrs, order) ==
    IF order = <<>> THEN s
    ELSE RangeAttrs(RequiredProviderAttr(s, b, attrs, Head(order)), b, attrs, Tail(order))

\* "for _, block := range content.Blocks" of a terraform block; orders[i]
\* is the order in which the attributes of the i-th nested block are ranged.
RECURSIVE RequiredProvidersBlocks(_, _, _, _)
RequiredProvidersBlocks(s, b, nested, orders) ==
    IF nested = <<>> THEN s
    ELSE LET ad == Head(nested).AttrDiags
             s1 == AppendDiags(s, [i \in DOMAIN ad |-> LibError(ad[i], AttrSubject(b, ""))],
                               "JustAttributes")
         IN  RequiredProvidersBlocks(RangeAttrs(s1, b, Head(nested).Attrs, Head(orders)),
                                     b, Tail(nested), Tail(orders))

\* case "terraform"
TerraformBlock(s, b, orders) ==
    RequiredProvidersBlocks(RequiredVersion(BlockContent(s, b), b), b, b.Blocks, orders)

\* The type hint of a "type" attribute: the keyword, else the quoted string.
\* The diagnostics of the fallback decode are not appended to diags.
DecodeTypeHint(s, e, subj) ==
    LET kw == ExprAsKeyword(e) IN
    IF kw = ""
    THEN LET d == DecodeExpression(e, subj) IN
         [s |-> DropDiags(s, d.diags, "type: DecodeExpression"),
          typeHint |-> IF ~HasErrors(d.diags) THEN d.str ELSE ""]
    ELSE [s |-> s, typeHint |-> kw]

InvalidTypeHint(subj) ==
    Diag(DiagError, "Invalid variable type hint",
         "The \"type\" argument must either be a type keyword or a quoted string.", subj)

\* if attr, defined := content.Attributes["type"]; defined { ... }
VariableType(s, b, v) ==
    IF Has(b.Attrs, "type")
    THEN LET t == DecodeTypeHint(s, b.Attrs["type"], AttrSubject(b, "type"))
             s1 == IF t.typeHint = ""
                   THEN AppendDiags(t.s, <<InvalidTypeHint(AttrSubject(b, "type"))>>, "check")
                   ELSE t.s
         IN  [s |-> s1, v |-> [v EXCEPT !.TypeHint = t.typeHint]]
    ELSE [s |-> s, v |-> v]

\* Mutant of BlockDescription: the diagnostics of the decode are not appended.
BlockDescription_DropsDiagnostics(s, b, v) ==
    IF Has(b.Attrs, "description")
    THEN LET d == DecodeExpression(b.Attrs["description"], AttrSubject(b, "description"))
         IN  [s |-> DropDiags(s, d.diags, "DecodeExpression"),
              v |-> [v EXCEPT !.Description = d.str]]
    ELSE [s |-> s, v |-> v]

\* if attr, defined := content.Attributes["description"]; defined { ... }
\* of a variable or an output block: the description is assigned whether
\* or not the decode had errors.
BlockDescription(s, b, v) ==
    IF Has(b.Attrs, "description")
    THEN LET d == DecodeExpression(b.Attrs["description"], AttrSubject(b, "description"))
         IN  [s |-> AppendDiags(s, d.diags, "DecodeExpression"),
              v |-> [v EXCEPT !.Description = d.str]]
    ELSE [s |-> s, v |-> v]

\* Mutant of VariableDefault: the value is stored whether wholly known or not.
VariableDefault_AlwaysStores(s, b, v) ==
    IF Has(b.Attrs, "default")
    THEN LET ev == Value(b.Attrs["default"], AttrSubject(b, "default"))
         IN  [s |-> AppendDiags(s, ev.diags, "Value"),
              v |-> [v EXCEPT !.Default = jsonUnmarshal(ctyjsonMarshal(ev.val))]]
    ELSE [s |-> s, v |-> v]

\* if attr, defined := content.Attributes["default"]; defined { ... }
VariableDefault(s, b, v) ==
    IF Has(b.Attrs, "default")
    THEN LET ev == Value(b.Attrs["default"], AttrSubject(b, "default"))
             s1 == AppendDiags(s, ev.diags, "Value")
         IN  IF IsWhollyKnown(ev.val)
             THEN [s |-> s1, v |-> [v EXCEPT !.Default = jsonUnmarshal(ctyjsonMarshal(ev.val))]]
             ELSE [s |-> s1, v |-> v]
    ELSE [s |-> s, v |-> v]

\* v := &Variable{Name: name, Pos: sourcePosHCL(block.DefRange)}
NewVariable(b) ==
    [Name |-> b.Labels[1], TypeHint |-> "", Description |-> "", Default |-> Nil,
     Pos |-> sourcePosHCL(b.DefRange)]

\* Mutant of StoreVariable: a variable already in the map is kept.
StoreVariable_KeepFirst(m, name, v) ==
    IF Has(m.Variables, name) THEN m ELSE [m EXCEPT !.Variables = Put(@, name, v)]

\* mod.Variables[name] = v
StoreVariable(m, name, v) == [m EXCEPT !.Variables = Put(@, name, v)]

\* case "variable".  mod.Variables[name] holds the pointer v, so what the
\* attribute steps assign to v is what the map holds afterwards.
VariableBlock(s, b) ==
    LET s0 == BlockContent(s, b)
        t == VariableType(s0, b, NewVariable(b))
        d == BlockDescription(t.s, b, t.v)
        f == VariableDefault(d.s, b, d.v)
    IN  [f.s EXCEPT !.mod = StoreVariable(@, b.Labels[1], f.v)]

\* o := &Output{Name: name, Pos: sourcePosHCL(block.DefRange)}
NewOutput(b) ==
    [Name |-> b.Labels[1], Description |-> "", Pos |-> sourcePosHCL(b.DefRange)]

\* Mutant of StoreOutput: an output already in the map is kept.
StoreOutput_KeepFirst(m, name, o) ==
    IF Has(m.Outputs, name) THEN m ELSE [m EXCEPT !.Outputs = Put(@, name, o)]

\* mod.Outputs[name] = o
StoreOutput(m, name, o) == [m EXCEPT !.Outputs = Put(@, name, o)]

\* case "output"
OutputBlock(s, b) ==
    LET d == BlockDescription(BlockContent(s, b), b, NewOutput(b))
    IN  [d.s EXCEPT !.mod = StoreOutput(@, b.Labels[1], d.v)]

\* if _, exists := mod.RequiredProviders[name]; !exists { ... = []string{} }
UnversionedDependency(m, name) ==
    IF ~Has(m.RequiredProviders, name)
    THEN [m EXCEPT !.RequiredProviders = Put(@, name, <<>>)]
    ELSE m

\* if attr, defined := content.Attributes["version"]; defined { ... }
ProviderVersion(s, b) ==
    IF Has(b.Attrs, "version")
    THEN LET d == DecodeExpression(b.Attrs["version"], AttrSubject(b, "version"))
             s1 == AppendDiags(s, d.diags, "DecodeExpression")
         IN  IF ~HasErrors(d.diags)
             THEN [s1 EXCEPT !.mod = AppendVersion(@, b.Labels[1], d.str)]
             ELSE s1
    ELSE s

\* case "provider"
ProviderBlock(s, b) ==
    LET s1 == ProviderVersion(BlockContent(s, b), b)
    IN  [s1 EXCEPT !.mod = UnversionedDependency(@, b.Labels[1])]

\* Mutant of DecodeProviderTraversal: the partial traversal of a string that
\* does not reparse is kept.
DecodeProviderTraversal_KeepPartial(s, e, subj) ==
    LET t == AbsTraversalForExpr(e, subj)
        s1 == DropDiags(s, t.diags, "provider: AbsTraversalForExpr")
    IN  IF HasErrors(t.diags)
        THEN LET d == DecodeExpression(e, subj)
                 s2 == DropDiags(s1, d.diags, "provider: DecodeExpression")
             IN  IF ~HasErrors(d.diags)
                 THEN LET p == ParseTraversalAbs(d.str, subj)
                      IN  [s |-> DropDiags(s2, p.diags, "provider: ParseTraversalAbs"),
                           traversal |-> p.traversal]
                 ELSE [s |-> s2, traversal |-> <<>>]
        ELSE [s |-> s1, traversal |-> t.traversal]

\* The traversal of a "provider" attribute: the bare reference, else the
\* quoted string reparsed as one; <<>> (nil) when neither works.  None of
\* the diagnostics of the three calls is appended to diags.
DecodeProviderTraversal(s, e, subj) ==
    LET t == AbsTraversalForExpr(e, subj)
        s1 == DropDiags(s, t.diags, "provider: AbsTraversalForExpr")
    IN  IF HasErrors(t.diags)
        THEN LET d == DecodeExpression(e, subj)
                 s2 == DropDiags(s1, d.diags, "provider: DecodeExpression")
             IN  IF ~HasErrors(d.diags)
                 THEN LET p == ParseTraversalAbs(d.str, subj)
                      IN  [s |-> DropDiags(s2, p.diags, "provider: ParseTraversalAbs"),
                           traversal |-> IF HasErrors(p.diags) THEN <<>> ELSE p.traversal]
                 ELSE [s |-> s2, traversal |-> <<>>]
        ELSE [s |-> s1, traversal |-> t.traversal]

\* ProviderRef{Name: traversal.RootName(), Alias: alias} of a traversal
\* that is not empty.
TraversalProviderRef(traversal) ==
    [Name |-> traversal[1].name,
     Alias |-> IF Len(traversal) > 1 /\ traversal[2].kind = "attr"
               THEN traversal[2].name
               ELSE ""]

InvalidProviderReference(subj) ==
    Diag(DiagError, "Invalid provider reference",
         "Provider argument requires a provider name followed by an optional alias, like \"aws.foo\".",
         subj)

\* if attr, defined := content.Attributes["provider"]; defined { ... } else { ... }
ResourceProvider(s, b, r) ==
    IF Has(b.Attrs, "provider")
    THEN LET t == DecodeProviderTraversal(s, b.Attrs["provider"], AttrSubject(b, "provider"))
         IN  IF Len(t.traversal) > 0
             THEN [s |-> t.s, r |-> [r EXCEPT !.Provider = TraversalProviderRef(t.traversal)]]
             ELSE [s |-> AppendDiags(t.s, <<InvalidProviderReference(AttrSubject(b, "provider"))>>,
                                     "check"),
                   r |-> r]
    ELSE [s |-> s,
          r |-> [r EXCEPT !.Provider =
                    [Name |-> resourceTypeDefaultProviderName(r.Type), Alias |-> ""]]]

\* r := &Resource{Type: typeName, Name: name, Pos: ...}, and its Mode.
NewResource(b) ==
    [Mode |-> IF b.Type = "resource" THEN ManagedResourceMode ELSE DataResourceMode,
     Type |-> b.Labels[1], Name |-> b.Labels[2],
     Provider |-> ZeroProviderRef,
     Pos |-> sourcePosHCL(b.DefRange)]

DuplicateResource(key, subj) ==
    Diag(DiagError, "Duplicate resource block",
         "The resource " \o key \o " was already defined.", subj)

\* The map the block's resource belongs in.
ResourcesMap(m, b) == IF b.Type = "resource" THEN m.ManagedResources ELSE m.DataResources

\* Mutant of Exists: the key is never found, so a later block overwrites.
Exists_NeverFound(resourcesMap, key) == FALSE

\* if _, exists := resourcesMap[key]; exists
Exists(resourcesMap, key) == Has(resourcesMap, key)

\* resourcesMap[key] = r.  The map holds the pointer r, so the Provider
\* assigned to r afterwards is in the map.
StoreResource(m, b, key, r) ==
    IF b.Type = "resource"
    THEN [m EXCEPT !.ManagedResources = Put(@, key, r)]
    ELSE [m EXCEPT !.DataResources = Put(@, key, r)]

\* case "resource", "data"
ResourceBlock(s, b) ==
    LET s0 == BlockContent(s, b)
        r == NewResource(b)
        key == MapKey(r)
    IN  IF Exists(ResourcesMap(s0.mod, b), key)
        THEN AppendDiags(s0, <<DuplicateResource(key, AttrSubject(b, ""))>>, "check")
        ELSE LET p == ResourceProvider(s0, b, r)
             IN  [p.s EXCEPT !.mod = StoreResource(@, b, key, p.r)]

\* The switch on block.Type.  A "module" block changes nothing.
ProcessBlock(s, b, orders) ==
    CASE b.Type = "terraform" -> TerraformBlock(s, b, orders)
      [] b.Type = "variable" -> VariableBlock(s, b)
      [] b.Type = "output" -> OutputBlock(s, b)
      [] b.Type = "provider" -> ProviderBlock(s, b)
      [] b.Type \in {"resource", "data"} -> ResourceBlock(s, b)
      [] b.Type = "module" -> s

\* diagnosticsHCL: the hcl.Diagnostics as the package's own Diagnostics,
\* one for one and in order.
diagnosticsHCL(ds) ==
    [i \in DOMAIN ds |->
        [Severity |-> IF ds[i].Severity = DiagError THEN "E" ELSE "W",
         Summary |-> ds[i].Summary,
         Detail |-> ds[i].Detail,
         Pos |-> IF ds[i].Subject = NoSubject THEN NoPos ELSE sourcePosHCL(ds[i].Subject)]]

NoConfigurationFiles ==
    Diag(DiagError, "No Terraform configuration files",
         "Module directory does not contain any .tf or .tf.json files.", NoSubject)

(***************************************************************************)
(* The inputs: what the directory holds, what the parser returns for a     *)
(* file, and the blocks of a file.                                         *)
(***************************************************************************)
DigitChar == <<"1", "2", "3", "4", "5", "6", "7", "8", "9">>

\* The i-th primary file: "1.tf", "2.tf.json", "3.tf", ...
FileName(i) ==
    <<DigitChar[i], ".", "t", "f">> \o (IF i % 2 = 0 THEN <<".", "j", "s", "o", "n">> ELSE <<>>)

OverrideName == <<"o", "_", "o", "v", "e", "r", "r", "i", "d", "e", ".", "t", "f">>

\* strings.HasSuffix(filename, ".json")
HasSuffix(cs, suffix) ==
    Len(cs) >= Len(suffix) /\ SubSeq(cs, Len(cs) - Len(suffix) + 1, Len(cs)) = suffix

\* What dirFiles returns: the directory cannot be read (an error and no
\* paths), or its primary and override paths.
DirListings ==
    {[primary |-> <<>>, override |-> <<>>,
      diags |-> <<LibError("Failed to read module directory", NoSubject)>>]}
    \cup {[primary |-> [i \in 1..n |-> FileName(i)], override |-> <<>>, diags |-> <<>>] :
             n \in 0..MaxFiles}
    \cup {[primary |-> <<>>, override |-> <<OverrideName>>, diags |-> <<>>]}

FileSubject(filename) == Subject(Join(filename), 0, "")

\* What the parser and the root PartialContent return for a file: no file
\* (it cannot be read), or a file with the diagnostics of its syntax and of
\* its root schema.
CleanFile == [file |-> TRUE, fileDiags |-> <<>>, contentDiags |-> <<>>]

FileOutcomes(filename) ==
    {CleanFile,
     [file |-> FALSE, contentDiags |-> <<>>,
      fileDiags |-> <<LibError("Failed to read file", FileSubject(filename))>>],
     [file |-> TRUE,
      fileDiags |-> <<LibError("Invalid expression", FileSubject(filename))>>,
      contentDiags |-> <<LibError("Unsupported block type", FileSubject(filename))>>]}

NoRange == [Filename |-> "", Line |-> 0]

Block(type, labels, attrs, nested) ==
    [Type |-> type, Labels |-> labels, Attrs |-> attrs, Blocks |-> nested,
     ContentDiags |-> <<>>, DefRange |-> NoRange]

\* attribute maps
NoAttrs == EmptyMap
Attr(name, e) == [k \in {name} |-> e]

\* An expression no string decodes from: the empty tuple [].
NotAString == ListExpr(<<>>)
\* A reference, which needs an evaluation context: var.x
Reference == TraversalExpr(<<TraverseRoot("var"), TraverseAttr("x")>>)

\* Blocks of each type.  The *Blocks sets are the inputs of the runs over
\* one file of one family of blocks; the Core*Blocks sets are the inputs of
\* the runs over a whole directory.
WithContentDiags(b) == [b EXCEPT !.ContentDiags = <<"Unsupported argument">>]

RequiredProvidersBlock(attrs, attrDiags) == [Attrs |-> attrs, AttrDiags |-> attrDiags]

\* The attribute maps of a required_providers block over aws and google,
\* each absent, a version string, or an expression no string decodes from.
ProviderRequirements ==
    UNION {[D -> {StringExpr("1.0"), NotAString}] : D \in SUBSET {"aws", "google"}}

TerraformBlocks ==
    {Block("terraform", <<>>, NoAttrs, <<>>),
     Block("terraform", <<>>, Attr("required_version", StringExpr("0.12")), <<>>),
     Block("terraform", <<>>, Attr("required_version", NotAString), <<>>),
     Block("terraform", <<>>, NoAttrs, <<RequiredProvidersBlock(NoAttrs, <<"Unsupported block type">>)>>),
     WithContentDiags(Block("terraform", <<>>, NoAttrs, <<>>))}
    \cup {Block("terraform", <<>>, NoAttrs, <<RequiredProvidersBlock(m, <<>>)>>) :
             m \in ProviderRequirements}

CoreTerraformBlocks ==
    {Block("terraform", <<>>, Attr("required_version", NotAString),
           <<RequiredProvidersBlock([n \in {"aws", "google"} |-> NotAString],
                                    <<"Unsupported block type">>)>>)}

ProviderBlocks ==
    {Block("provider", <<n>>, a, <<>>) :
        n \in {"aws", "google"},
        a \in {NoAttrs, Attr("version", StringExpr("2.0")), Attr("version", NotAString)}}
    \cup {WithContentDiags(Block("provider", <<"aws">>, NoAttrs, <<>>))}

CoreProviderBlocks ==
    {Block("provider", <<"aws">>, Attr("version", NotAString), <<>>)}

TypeAttrs ==
    {Attr("type", TraversalExpr(<<TraverseRoot("string")>>)),  \* type = string
     Attr("type", StringExpr("string")),                       \* type = "string"
     Attr("type", StringExpr("")),                             \* type = ""
     Attr("type", NumberExpr("42")),                           \* type = 42
     Attr("type", NotAString),                                 \* type = []
     Attr("type", Reference)}                                  \* type = var.x

DescriptionAttrs ==
    {Attr("description", StringExpr("d")), Attr("description", NotAString)}

DefaultAttrs ==
    {Attr("default", StringExpr("hi")),                          \* default = "hi"
     Attr("default", NullExpr),                                  \* default = null
     Attr("default", ListExpr(<<StringExpr("a"), NumberExpr("1")>>)),  \* default = ["a", 1]
     Attr("default", Reference),                                 \* default = var.x
     Attr("default", ListExpr(<<StringExpr("a"), Reference>>))}  \* default = ["a", var.x]

\* type = string, description = "d", default = "hi"
AllVariableAttrs ==
    [k \in {"type", "description", "default"} |->
        CASE k = "type" -> TraversalExpr(<<TraverseRoot("string")>>)
          [] k = "description" -> StringExpr("d")
          [] k = "default" -> StringExpr("hi")]

VariableBlocks ==
    {Block("variable", <<"x">>, a, <<>>) :
        a \in {NoAttrs, AllVariableAttrs} \cup TypeAttrs \cup DescriptionAttrs \cup DefaultAttrs}
    \cup {Block("variable", <<"y">>, NoAttrs, <<>>),
          WithContentDiags(Block("variable", <<"x">>, NoAttrs, <<>>))}

CoreVariableBlocks ==
    {Block("variable", <<"x">>, Attr("type", StringExpr("string")), <<>>),
     Block("variable", <<"x">>, Attr("type", NotAString), <<>>)}

OutputBlocks ==
    {Block("output", <<"x">>, a, <<>>) : a \in {NoAttrs} \cup DescriptionAttrs}
    \cup {Block("output", <<"y">>, NoAttrs, <<>>),
          WithContentDiags(Block("output", <<"x">>, NoAttrs, <<>>))}

CoreOutputBlocks ==
    {Block("output", <<"x">>, Attr("description", NotAString), <<>>)}

AwsVm == <<"a", "w", "s", "_", "v", "m">>
NullResource == <<"n", "u", "l", "l">>

ProviderAttrs ==
    {Attr("provider", TraversalExpr(<<TraverseRoot("aws"), TraverseAttr("east")>>)),   \* aws.east
     Attr("provider", StringExpr(<<"a", "w", "s", ".", "e", "a", "s", "t">>)),         \* "aws.east"
     Attr("provider", TraversalExpr(<<TraverseRoot("aws"), TraverseIndex("0")>>)),     \* aws[0]
     Attr("provider", StringExpr(<<"a", "w", "s", "[", "0", "]">>)),                   \* "aws[0]"
     Attr("provider", TraversalExpr(<<TraverseRoot("google")>>)),                      \* google
     Attr("provider", StringExpr(<<"?", "?", "?">>)),                                  \* "???"
     Attr("provider", StringExpr(<<"a", "w", "s", ".">>)),                             \* "aws."
     Attr("provider", NotAString)}                                                     \* []

ResourceBlocks ==
    {Block("resource", <<AwsVm, "a">>, a, <<>>) : a \in {NoAttrs} \cup ProviderAttrs}
    \cup {Block("resource", <<NullResource, "a">>, NoAttrs, <<>>),
          WithContentDiags(Block("resource", <<AwsVm, "a">>, NoAttrs, <<>>))}

CoreResourceBlocks ==
    {Block("resource", <<AwsVm, "a">>, a, <<>>) :
        a \in {Attr("provider", StringExpr(<<"a", "w", "s", ".", "e", "a", "s", "t">>)),
               Attr("provider", StringExpr(<<"?", "?", "?">>))}}

DataBlocks ==
    {Block("data", <<AwsVm, "a">>, a, <<>>) :
        a \in {NoAttrs,
               Attr("provider", TraversalExpr(<<TraverseRoot("aws"), TraverseAttr("east")>>)),
               Attr("provider", StringExpr(<<"?", "?", "?">>))}}

CoreDataBlocks ==
    {WithContentDiags(Block("data", <<AwsVm, "a">>, NoAttrs, <<>>))}

ModuleBlocks == {Block("module", <<"m">>, NoAttrs, <<>>)}

(***************************************************************************)
(* The run of loadModule.                                                  *)
(***************************************************************************)
NotReturned == [mod |-> newModule, diags |-> <<>>]

Init ==
    /\ pc = "start"
    /\ primaryPaths = <<>>
    /\ overridePaths = <<>>
    /\ fileIdx = 0
    /\ line = 0
    /\ input = <<>>
    /\ mod = newModule
    /\ diags = <<>>
    /\ produced = <<>>
    /\ other = [mod |-> newModule, diags |-> <<>>]
    /\ ret = NotReturned

State == [mod |-> mod, diags |-> diags, produced |-> produced]
OtherState == [mod |-> other.mod, diags |-> other.diags, produced |-> <<>>]

\* Both runs take the step: this one to s, the second one to o.
Becomes(s, o) ==
    /\ mod' = s.mod
    /\ diags' = s.diags
    /\ produced' = s.produced
    /\ other' = [mod |-> o.mod, diags |-> o.diags]

\* Mutant of NoPaths: the override paths are not looked at.
NoPaths_PrimaryOnly(primary, override) == Len(primary) = 0

\* len(primaryPaths) == 0 && len(overridePaths) == 0
NoPaths(primary, override) == Len(primary) = 0 /\ Len(override) = 0

\* mod := newModule(dir); primaryPaths, overridePaths, diags := dirFiles(dir)
\* and the check for a directory without configuration files.
Listed(s, listing) ==
    LET s1 == AppendDiags(s, listing.diags, "dirFiles")
    IN  IF NoPaths(listing.primary, listing.override)
        THEN AppendDiags(s1, <<NoConfigurationFiles>>, "check")
        ELSE s1

DirFilesAs(listing) ==
    /\ pc = "start"
    /\ primaryPaths' = listing.primary
    /\ overridePaths' = listing.override
    /\ Becomes(Listed(State, listing), Listed(OtherState, listing))
    /\ pc' = "files"
    /\ UNCHANGED <<fileIdx, line, input, ret>>

DirFiles == \E listing \in DirListings : DirFilesAs(listing)

\* A directory of one primary file.
DirFilesOne ==
    \E listing \in {l \in DirListings : Len(l.primary) = 1 /\ l.override = <<>>} :
        DirFilesAs(listing)

\* The parser the file's name picks, as the stage of its diagnostics.
Parser(filename) ==
    IF HasSuffix(filename, <<".", "j", "s", "o", "n">>) THEN "ParseJSONFile" ELSE "ParseHCLFile"

\* One file of "for _, filename := range primaryPaths" up to its blocks.
Parsed(s, filename, outcome) ==
    LET s1 == AppendDiags(s, outcome.fileDiags, Parser(filename))
    IN  IF ~outcome.file THEN s1 ELSE AppendDiags(s1, outcome.contentDiags, "PartialContent")

ParseFileAs(outcome) ==
    /\ pc = "files"
    /\ fileIdx < Len(primaryPaths)
    /\ fileIdx' = fileIdx + 1
    /\ line' = 0
    /\ Becomes(Parsed(State, primaryPaths[fileIdx + 1], outcome),
               Parsed(OtherState, primaryPaths[fileIdx + 1], outcome))
    /\ pc' = IF outcome.file THEN "blocks" ELSE "files"
    /\ UNCHANGED <<primaryPaths, overridePaths, input, ret>>

ParseFile ==
    /\ pc = "files"
    /\ fileIdx < Len(primaryPaths)
    /\ \E outcome \in FileOutcomes(primaryPaths[fileIdx + 1]) : ParseFileAs(outcome)

ParseCleanFile == ParseFileAs(CleanFile)

\* The orders in which the attributes of the nested blocks of b can be ranged.
AttrOrders(b) ==
    {os \in [DOMAIN b.Blocks -> UNION {Orders(DOMAIN b.Blocks[i].Attrs) : i \in DOMAIN b.Blocks}] :
        \A i \in DOMAIN b.Blocks : os[i] \in Orders(DOMAIN b.Blocks[i].Attrs)}

\* One iteration of "for _, block := range content.Blocks": the next block
\* of the current file is t, at the next line of the file.
BlockStep(t, max) ==
    /\ pc = "blocks"
    /\ Len(input) < max
    /\ LET b == [t EXCEPT !.DefRange = [Filename |-> Join(primaryPaths[fileIdx]), Line |-> line + 1]]
       IN  /\ \E o1, o2 \in AttrOrders(b) :
                 Becomes(ProcessBlock(State, b, o1), ProcessBlock(OtherState, b, o2))
           /\ input' = Append(input, b)
    /\ line' = line + 1
    /\ UNCHANGED <<pc, primaryPaths, overridePaths, fileIdx, ret>>

Terraform == \E t \in TerraformBlocks : BlockStep(t, MaxBlocks)
Variable == \E t \in VariableBlocks : BlockStep(t, MaxBlocks)
Output == \E t \in OutputBlocks : BlockStep(t, MaxBlocks)
Provider == \E t \in ProviderBlocks : BlockStep(t, MaxBlocks)
Resource == \E t \in ResourceBlocks : BlockStep(t, MaxBlocks)
Data == \E t \in DataBlocks : BlockStep(t, MaxBlocks)
Module == \E t \in ModuleBlocks : BlockStep(t, MaxRunBlocks)

CoreTerraform == \E t \in CoreTerraformBlocks : BlockStep(t, MaxRunBlocks)
CoreVariable == \E t \in CoreVariableBlocks : BlockStep(t, MaxRunBlocks)
CoreOutput == \E t \in CoreOutputBlocks : BlockStep(t, MaxRunBlocks)
CoreProvider == \E t \in CoreProviderBlocks : BlockStep(t, MaxRunBlocks)
CoreResource == \E t \in CoreResourceBlocks : BlockStep(t, MaxRunBlocks)
CoreData == \E t \in CoreDataBlocks : BlockStep(t, MaxRunBlocks)

\* content.Blocks of the current file is exhausted.
EndBlocks ==
    /\ pc = "blocks"
    /\ pc' = "files"
    /\ UNCHANGED <<primaryPaths, overridePaths, fileIdx, line, input, mod, diags, produced,
                   other, ret>>

\* return mod, diagnosticsHCL(diags)
Return ==
    /\ pc = "files"
    /\ fileIdx = Len(primaryPaths)
    /\ ret' = [mod |-> mod, diags |-> diagnosticsHCL(diags)]
    /\ pc' = "done"
    /\ UNCHANGED <<primaryPaths, overridePaths, fileIdx, line, input, mod, diags, produced,
                   other>>

\* The whole run, over the core blocks of every type.
Next ==
    \/ DirFiles
    \/ ParseFile
    \/ CoreTerraform
    \/ CoreVariable
    \/ CoreOutput
    \/ CoreProvider
    \/ CoreResource
    \/ CoreData
    \/ Module
    \/ EndBlocks
    \/ Return

Spec == Init /\ [][Next]_vars

\* Runs over one file that parses cleanly and holds resource and data blocks.
NextResources == DirFilesOne \/ ParseCleanFile \/ Resource \/ Data \/ EndBlocks \/ Return

SpecResources == Init /\ [][NextResources]_vars

\* Runs over one file that parses cleanly and holds variable and output blocks.
NextVariables == DirFilesOne \/ ParseCleanFile \/ Variable \/ Output \/ EndBlocks \/ Return

SpecVariables == Init /\ [][NextVariables]_vars

\* Runs over one file that parses cleanly and holds terraform and provider blocks.
NextProviders == DirFilesOne \/ ParseCleanFile \/ Terraform \/ Provider \/ EndBlocks \/ Return

SpecProviders == Init /\ [][NextProviders]_vars

(***************************************************************************)
(* What the claims speak of.                                               *)
(***************************************************************************)
\* The state before anything was processed.
Fresh == [mod |-> newModule, diags |-> <<>>, produced |-> <<>>]

\* The module a block yields when it is the only block processed.
Alone(b) == ProcessBlock(Fresh, b, [i \in DOMAIN b.Blocks |-> <<>>]).mod

IsResource(b) == b.Type \in {"resource", "data"}

SameTriple(a, b) == IsResource(a) /\ IsResource(b) /\ a.Type = b.Type /\ a.Labels = b.Labels

\* The first block of input with the (mode, type, name) of input[i].
FirstOfTriple(i) == CHOOSE j \in 1..i :
    /\ SameTriple(input[j], input[i])
    /\ \A k \in 1..(j - 1) : ~SameTriple(input[k], input[i])

\* The entries of the block's map that have the block's (mode, type, name).
EntriesOf(m, b) ==
    {k \in DOMAIN ResourcesMap(m, b) :
        /\ ResourcesMap(m, b)[k].Mode = NewResource(b).Mode
        /\ ResourcesMap(m, b)[k].Type = b.Labels[1]
        /\ ResourcesMap(m, b)[k].Name = b.Labels[2]}

TheEntry(m, b) == ResourcesMap(m, b)[CHOOSE k \in EntriesOf(m, b) : TRUE]

\* The number of diagnostics with this summary about this place.
DiagCount(ds, summary, subj) ==
    Cardinality({i \in DOMAIN ds : ds[i].Summary = summary /\ ds[i].Subject = subj})

\* C1: each (mode, type, name) of a resource or data block processed has
\* exactly one entry in its map, and that entry is the one its earliest
\* declaration alone gives (its Pos and its Provider); every later block of
\* the triple has exactly one "Duplicate resource block" error, the earliest
\* has none.
C1_EarliestDeclarationWins ==
    \A i \in DOMAIN input :
        IsResource(input[i]) =>
            LET b == input[i]
                first == input[FirstOfTriple(i)]
            IN  /\ Cardinality(EntriesOf(mod, b)) = 1
                /\ TheEntry(mod, b) = TheEntry(Alone(first), first)
                /\ TheEntry(mod, b).Pos = sourcePosHCL(first.DefRange)
                /\ DiagCount(diags, "Duplicate resource block", AttrSubject(b, "")) =
                       IF FirstOfTriple(i) = i THEN 0 ELSE 1
                /\ \A j \in DOMAIN diags :
                       diags[j].Summary = "Duplicate resource block" => diags[j].Severity = DiagError

\* C1 witness: a resource declared three times, with a provider the later
\* declarations do not have; the run returned, the map holds the first.
C1_Witness ==
    /\ pc = "done"
    /\ Len(input) = 3
    /\ \A i \in 2..3 : SameTriple(input[i], input[1]) /\ input[i].Attrs # input[1].Attrs
    /\ Has(input[1].Attrs, "provider")
    /\ TheEntry(ret.mod, input[1]).Provider = [Name |-> "aws", Alias |-> "east"]
    /\ Len(diags) = 2

IsNamed(b, type, name) == b.Type = type /\ b.Labels = <<name>>

Declared(type) == {input[i].Labels[1] : i \in {j \in DOMAIN input : input[j].Type = type}}

\* The last block of input of this type and name.
LastNamed(type, name) == CHOOSE i \in DOMAIN input :
    /\ IsNamed(input[i], type, name)
    /\ \A k \in (i + 1)..Len(input) : ~IsNamed(input[k], type, name)

\* The diagnostics each block of input gives when it is the only block
\* processed, one block after the other.
DiagsOfEachAlone ==
    ConcatAll([i \in DOMAIN input |->
        ProcessBlock(Fresh, input[i], [j \in DOMAIN input[i].Blocks |-> <<>>]).diags])

\* C2: the keys of Variables (of Outputs) are the names the variable
\* (output) blocks processed declare, the entry of a name is the one the last
\* block declaring it gives alone, and the diagnostics are those the blocks
\* give alone: a repetition adds none.
C2_LastDeclarationWins ==
    /\ DOMAIN mod.Variables = Declared("variable")
    /\ DOMAIN mod.Outputs = Declared("output")
    /\ \A n \in Declared("variable") :
           LET b == input[LastNamed("variable", n)]
           IN  /\ mod.Variables[n] = Alone(b).Variables[n]
               /\ mod.Variables[n].Pos = sourcePosHCL(b.DefRange)
               /\ mod.Variables[n].Name = n
    /\ \A n \in Declared("output") :
           LET b == input[LastNamed("output", n)]
           IN  /\ mod.Outputs[n] = Alone(b).Outputs[n]
               /\ mod.Outputs[n].Pos = sourcePosHCL(b.DefRange)
               /\ mod.Outputs[n].Name = n
    /\ diags = DiagsOfEachAlone

\* C2 witness: variable x declared with type, description and default and
\* then again with no attribute, output x declared with a description and
\* then again without; the entries are the bare ones of the later blocks.
C2_Witness ==
    /\ pc = "done"
    /\ \E i, j \in DOMAIN input :
          /\ i < j
          /\ IsNamed(input[i], "variable", "x") /\ input[i].Attrs = AllVariableAttrs
          /\ IsNamed(input[j], "variable", "x") /\ input[j].Attrs = NoAttrs
          /\ ret.mod.Variables["x"] =
                [Name |-> "x", TypeHint |-> "", Description |-> "", Default |-> Nil,
                 Pos |-> sourcePosHCL(input[j].DefRange)]
    /\ ret.diags = <<>>

\* The string a traversal is written as: aws.east, aws[0].
RECURSIVE StepsText(_)
StepsText(steps) ==
    IF steps = <<>> THEN ""
    ELSE (IF Head(steps).kind = "attr"
          THEN "." \o Head(steps).name
          ELSE "[" \o Head(steps).name \o "]") \o StepsText(Tail(steps))

TraversalText(traversal) == traversal[1].name \o StepsText(Tail(traversal))

\* The references a provider attribute may mean: a provider name, alone or
\* with an alias or an index.
References ==
    {<<TraverseRoot(n)>> \o rest :
        n \in {"aws", "google"},
        rest \in {<<>>, <<TraverseAttr("east")>>, <<TraverseIndex("0")>>,
                  <<TraverseAttr("east"), TraverseAttr("b")>>}}

\* The reference a provider expression stands for, bare or quoted; <<>> if none.
ReferenceOf(e) ==
    IF e.form = "traversal" THEN e.segs
    ELSE IF e.form = "string" /\ \E t \in References : TraversalText(t) = Join(e.text)
    THEN CHOOSE t \in References : TraversalText(t) = Join(e.text)
    ELSE <<>>

\* The provider name a resource type implies.
ImpliedProvider(typeName) ==
    CASE typeName = AwsVm -> "aws"
      [] typeName = NullResource -> "null"

\* The Provider the three-tier resolution gives a block.
ResolvedProvider(b) ==
    IF ~Has(b.Attrs, "provider")
    THEN [Name |-> ImpliedProvider(b.Labels[1]), Alias |-> ""]
    ELSE LET t == ReferenceOf(b.Attrs["provider"]) IN
         IF t = <<>> THEN ZeroProviderRef
         ELSE [Name |-> t[1].name,
               Alias |-> IF Len(t) >= 2 /\ t[2].kind = "attr" THEN t[2].name ELSE ""]

\* C5: the entry of every resource or data block that is no duplicate has
\* the Provider of the three-tier resolution: the type's default provider
\* without a provider attribute; name and alias of the reference the
\* attribute is, bare or quoted alike; and the zero value with exactly one
\* "Invalid provider reference" error when it is neither, none otherwise.
C5_ProviderResolution ==
    \A i \in DOMAIN input :
        (IsResource(input[i]) /\ FirstOfTriple(i) = i) =>
            LET b == input[i]
                invalid == Has(b.Attrs, "provider") /\ ReferenceOf(b.Attrs["provider"]) = <<>>
            IN  /\ TheEntry(mod, b).Provider = ResolvedProvider(b)
                /\ invalid => TheEntry(mod, b).Provider = ZeroProviderRef
                /\ DiagCount(diags, "Invalid provider reference", AttrSubject(b, "provider")) =
                       IF invalid THEN 1 ELSE 0

\* C5 witness: the quoted "aws.east" on a resource and the bare aws.east on
\* a data block both gave {aws, east}, and a block without the attribute
\* got its type's provider.
C5_Witness ==
    /\ pc = "done"
    /\ \E i, j, k \in DOMAIN input :
          /\ input[i].Type = "resource" /\ Has(input[i].Attrs, "provider")
          /\ input[i].Attrs["provider"].form = "string"
          /\ input[j].Type = "data" /\ Has(input[j].Attrs, "provider")
          /\ input[j].Attrs["provider"].form = "traversal"
          /\ TheEntry(ret.mod, input[i]).Provider = [Name |-> "aws", Alias |-> "east"]
          /\ TheEntry(ret.mod, input[j]).Provider = TheEntry(ret.mod, input[i]).Provider
          /\ input[k].Labels[1] = NullResource
          /\ TheEntry(ret.mod, input[k]).Provider = [Name |-> "null", Alias |-> ""]
    /\ ret.diags = <<>>

\* A version expression decodes to a string when it is a string or a number.
Decodes(e) == e.form \in {"string", "number"}

\* The versions input[i] requires of provider name, in the block's order.
RECURSIVE NestedVersions(_, _)
NestedVersions(nested, name) ==
    IF nested = <<>> THEN <<>>
    ELSE (IF Has(Head(nested).Attrs, name) /\ Decodes(Head(nested).Attrs[name])
          THEN <<Head(nested).Attrs[name].text>>
          ELSE <<>>) \o NestedVersions(Tail(nested), name)

BlockVersions(b, name) ==
    CASE b.Type = "terraform" -> NestedVersions(b.Blocks, name)
      [] b.Type = "provider" /\ b.Labels = <<name>> /\ Has(b.Attrs, "version")
            /\ Decodes(b.Attrs["version"]) -> <<b.Attrs["version"].text>>
      [] OTHER -> <<>>

RequiredVersions(name) == ConcatAll([i \in DOMAIN input |-> BlockVersions(input[i], name)])

ProviderNames == {"aws", "google", "null"}

\* C7: RequiredProviders[name] is the sequence, in processing order and with
\* repetitions, of the versions decoded for name; name is a key exactly when
\* that sequence is not empty or a provider block labelled name was
\* processed.
C7_RequiredProviders ==
    /\ DOMAIN mod.RequiredProviders \subseteq ProviderNames
    /\ \A name \in ProviderNames :
          /\ Has(mod.RequiredProviders, name) <=>
                \/ RequiredVersions(name) # <<>>
                \/ \E i \in DOMAIN input : IsNamed(input[i], "provider", name)
          /\ Has(mod.RequiredProviders, name) =>
                mod.RequiredProviders[name] = RequiredVersions(name)

\* C7 witness: aws was required twice with the same constraint and is
\* recorded twice; google has a provider block without a version and is a key
\* with no version.
C7_Witness ==
    /\ pc = "done"
    /\ DOMAIN ret.mod.RequiredProviders = {"aws", "google"}
    /\ ret.mod.RequiredProviders["aws"] = <<"1.0", "1.0">>
    /\ ret.mod.RequiredProviders["google"] = <<>>

\* C10: a directory with no paths returns the empty Module and exactly one
\* "No Terraform configuration files" error; with a path, primary or
\* override, that diagnostic is not in the list.
C10_NoConfigurationFiles ==
    pc = "done" =>
        LET n == Cardinality({i \in DOMAIN ret.diags :
                                 /\ ret.diags[i].Summary = "No Terraform configuration files"
                                 /\ ret.diags[i].Severity = "E"})
        IN  IF Len(primaryPaths) = 0 /\ Len(overridePaths) = 0
            THEN n = 1 /\ ret.mod = newModule
            ELSE n = 0

\* C10 witness: a directory without files returned.
C10_Witness ==
    /\ pc = "done"
    /\ primaryPaths = <<>> /\ overridePaths = <<>>
    /\ Len(ret.diags) = 1
    /\ ret.diags[1].Summary = "No Terraform configuration files"

\* A step that processed a block, and the diagnostics it appended.
BlockProcessed == Len(input') = Len(input) + 1

NewDiags == SubSeq(diags', Len(diags) + 1, Len(diags'))

Emitted(summary) == \E i \in DOMAIN NewDiags : NewDiags[i].Summary = summary

SemanticError ==
    \/ Emitted("Invalid variable type hint")
    \/ Emitted("Invalid provider reference")
    \/ Emitted("Duplicate resource block")

\* C3 as claimed: a block whose processing emitted a semantic error added
\* or modified no entry of Variables, ManagedResources or DataResources.
C3_NoPartialBlockState ==
    [][(BlockProcessed /\ SemanticError) =>
          /\ mod'.Variables = mod.Variables
          /\ mod'.ManagedResources = mod.ManagedResources
          /\ mod'.DataResources = mod.DataResources]_vars

\* C3 amended: of the blocks whose processing emitted a semantic error, the
\* duplicate resource block alone leaves the Module as it was.  A variable
\* block with an invalid type hint puts its variable in Variables, in the
\* place of any earlier one of the name, with an empty TypeHint; a resource
\* or data block with an invalid provider reference is put in its map under
\* a key the map did not have, with the zero Provider.  Nothing else changes.
C3_OnlyDuplicatesLeaveNoTrace ==
    [][(BlockProcessed /\ SemanticError) =>
          LET b == input'[Len(input')] IN
          CASE Emitted("Duplicate resource block") -> mod' = mod
            [] Emitted("Invalid variable type hint") ->
                  /\ b.Type = "variable"
                  /\ Has(mod'.Variables, b.Labels[1])
                  /\ mod'.Variables[b.Labels[1]].TypeHint = ""
                  /\ mod'.Variables[b.Labels[1]].Pos = sourcePosHCL(b.DefRange)
                  /\ mod' = [mod EXCEPT !.Variables = Put(@, b.Labels[1], mod'.Variables[b.Labels[1]])]
            [] Emitted("Invalid provider reference") ->
                  /\ IsResource(b)
                  /\ ~Has(ResourcesMap(mod, b), MapKey(NewResource(b)))
                  /\ mod' = StoreResource(mod, b, MapKey(NewResource(b)), NewResource(b))
                  /\ NewResource(b).Provider = ZeroProviderRef]_vars

\* C3 witness: a variable block with an invalid type hint has taken the place
\* of an earlier declaration of the name that had a valid one.
C3_Witness ==
    /\ Len(input) = 2
    /\ IsNamed(input[1], "variable", "x") /\ input[1].Attrs = Attr("type", StringExpr("string"))
    /\ IsNamed(input[2], "variable", "x") /\ input[2].Attrs = Attr("type", NotAString)
    /\ mod.Variables["x"].TypeHint = ""
    /\ mod.Variables["x"].Pos = sourcePosHCL(input[2].DefRange)
    /\ Len(diags) = 1 /\ diags[1].Summary = "Invalid variable type hint"

\* The Go value a literal is, and whether an expression is one.
Literal(e) ==
    \/ e.form \in {"string", "number", "null"}
    \/ e.form = "list" /\ \A i \in DOMAIN e.elems : e.elems[i].form \in {"string", "number", "null"}

ScalarGo(e) ==
    CASE e.form = "string" -> [gotype |-> "string", v |-> e.text, elems |-> <<>>]
      [] e.form = "number" -> [gotype |-> "float64", v |-> e.text, elems |-> <<>>]
      [] e.form = "null" -> Nil

LiteralGo(e) ==
    IF e.form = "list"
    THEN [gotype |-> "[]interface{}", v |-> "", elems |-> [i \in DOMAIN e.elems |-> ScalarGo(e.elems[i])]]
    ELSE ScalarGo(e)

VariablesWith(attr) ==
    {i \in DOMAIN input : input[i].Type = "variable" /\ Has(input[i].Attrs, attr)}

IsLast(i) == LastNamed(input[i].Type, input[i].Labels[1]) = i

DiagsAbout(subj) == SelectSeq(diags, LAMBDA d : d.Subject = subj)

\* C4 as claimed: a default with unresolved references leaves Default nil
\* and adds no error diagnostic for the attribute; a literal default is
\* the decoded value.
C4_UnknownDefaultIsSilent ==
    \A i \in VariablesWith("default") :
        LET b == input[i]
            e == b.Attrs["default"]
        IN  /\ IsLast(i) =>
                  mod.Variables[b.Labels[1]].Default = IF Literal(e) THEN LiteralGo(e) ELSE Nil
            /\ ~Literal(e) => ~HasErrors(DiagsAbout(AttrSubject(b, "default")))

\* C4 amended: a default with unresolved references leaves Default nil, and
\* the diagnostics about the attribute are exactly those its evaluation
\* returned, the evaluator's errors for the references: loadModule adds none
\* of its own and takes none away.  A literal default is the decoded value
\* and has no diagnostic.
C4_UnknownDefaultIsAbsent ==
    \A i \in VariablesWith("default") :
        LET b == input[i]
            e == b.Attrs["default"]
            about == DiagsAbout(AttrSubject(b, "default"))
        IN  /\ IsLast(i) =>
                  mod.Variables[b.Labels[1]].Default = IF Literal(e) THEN LiteralGo(e) ELSE Nil
            /\ about = Value(e, AttrSubject(b, "default")).diags
            /\ Literal(e) => about = <<>>
            /\ ~Literal(e) =>
                  /\ about # <<>>
                  /\ \A j \in DOMAIN about :
                        about[j].Severity = DiagError /\ about[j].Summary = "Variables not allowed"

\* C4 witness: the last declaration of x has the default ["a", var.x]; the
\* run returned with its Default nil and the evaluator's error.
C4_Witness ==
    /\ pc = "done"
    /\ \E i \in VariablesWith("default") :
          /\ IsLast(i)
          /\ input[i].Attrs["default"] = ListExpr(<<StringExpr("a"), Reference>>)
          /\ ret.mod.Variables["x"].Default = Nil
          /\ Len(ret.diags) = 1
          /\ ret.diags[1].Summary = "Variables not allowed"

\* The number of "Invalid variable type hint" errors about the type
\* attribute of b.
InvalidHints(b) == DiagCount(diags, "Invalid variable type hint", AttrSubject(b, "type"))

IsKeyword(e) == e.form = "traversal" /\ Len(e.segs) = 1

\* C6 as claimed: the keyword and the quoted string of a type name give
\* that name as TypeHint; an expression that is neither a bare keyword nor a
\* quoted string gives the empty TypeHint and exactly one "Invalid variable
\* type hint" error; and the TypeHint of a type attribute is empty exactly
\* when that error was emitted for it.
C6_TypeHint ==
    \A i \in VariablesWith("type") :
        LET b == input[i]
            e == b.Attrs["type"]
            hint == Alone(b).Variables[b.Labels[1]].TypeHint
        IN  /\ IsLast(i) => mod.Variables[b.Labels[1]].TypeHint = hint
            /\ IsKeyword(e) => hint = e.segs[1].name
            /\ e.form = "string" => hint = e.text
            /\ (~IsKeyword(e) /\ e.form # "string") => (hint = "" /\ InvalidHints(b) = 1)
            /\ hint = "" <=> InvalidHints(b) = 1
            /\ InvalidHints(b) <= 1

\* The index of a file name among the primary paths; 0 for no file.
FileIndex(filename) ==
    IF filename = "" THEN 0
    ELSE CHOOSE i \in DOMAIN primaryPaths : Join(primaryPaths[i]) = filename

\* d1 is about a place not after that of d2: an earlier file, or the same
\* file and no later block.
NotAfter(d1, d2) ==
    \/ FileIndex(d1.Subject.Filename) < FileIndex(d2.Subject.Filename)
    \/ /\ FileIndex(d1.Subject.Filename) = FileIndex(d2.Subject.Filename)
       /\ d1.Subject.Line <= d2.Subject.Line

\* C8 as claimed: two runs over the same documents return the same Module
\* and the same Diagnostics in the same order, the diagnostics are in the
\* order of the files and of the blocks in a file, and the list only grows by
\* appending.
C8_DeterministicOrderedDiagnostics ==
    /\ [](pc = "done" => (other.mod = mod /\ other.diags = diags))
    /\ [](\A i, j \in DOMAIN diags : i < j => NotAfter(diags[i], diags[j]))
    /\ [][SubSeq(diags', 1, Len(diags)) = diags]_vars

\* The stages whose diagnostics are those of an attempt: the string decode
\* of a type attribute that is no keyword, and the three calls made on a
\* provider attribute.
TrialStages ==
    {"type: DecodeExpression", "provider: AbsTraversalForExpr", "provider: DecodeExpression",
     "provider: ParseTraversalAbs"}

ReturnedAs(d) == diagnosticsHCL(<<d>>)[1]

Returned(d) == \E j \in DOMAIN ret.diags : ret.diags[j] = ReturnedAs(d)

\* C9 as claimed: every diagnostic any stage produced is in the returned list.
C9_NoDiagnosticDropped ==
    pc = "done" => \A i \in DOMAIN produced : Returned(produced[i].diag)

NotTrial(p) == p.stage \notin TrialStages

\* C9 amended: the returned list is, in order, every diagnostic produced by
\* dirFiles, the parse of a file, PartialContent and JustAttributes, the
\* decodes of required_version, of the required_providers attributes, of
\* description and of version, the evaluation of default, and the checks
\* of loadModule; the diagnostics of the attempts on a type attribute (its
\* string decode) and on a provider attribute (AbsTraversalForExpr, the
\* string decode, ParseTraversalAbs) are in no case in it.
C9_OnlyAttemptsDropped ==
    pc = "done" =>
        LET kept == SelectSeq(produced, NotTrial) IN
        /\ ret.diags = diagnosticsHCL([i \in DOMAIN kept |-> kept[i].diag])
        /\ \A i \in DOMAIN produced : ~NotTrial(produced[i]) => ~Returned(produced[i].diag)

\* C9 witness: the run returned after a file and a decode gave diagnostics
\* that are in the list, and after the attempt on a quoted provider
\* reference gave one that is not.
C9_Witness ==
    /\ pc = "done"
    /\ \E i, j, k \in DOMAIN produced :
          /\ produced[i].stage = "ParseHCLFile" /\ Returned(produced[i].diag)
          /\ produced[j].stage = "DecodeExpression" /\ Returned(produced[j].diag)
          /\ produced[k].stage = "provider: AbsTraversalForExpr" /\ ~Returned(produced[k].diag)
    /\ \A i \in DOMAIN ret.diags : ret.diags[i].Summary # "Invalid provider reference"

====
